---- MODULE Spec2Model ----
(***************************************************************************)
(* Customer Risk & Recommendation Engine (backend/ml_models.py) and the    *)
(* API handlers that call it (backend/app.py).                             *)
(*                                                                         *)
(* Numbers.  Customer fields are integers; feature_usage_score is held in  *)
(* tenths (12 stands for 1.2).  A Python float is held as a record         *)
(* [m, u]: m is the decimal value in units of 1/10000 and u is the         *)
(* distance, in units in the last place, of the binary64 value from the    *)
(* binary64 nearest to that decimal (0.1 + 0.2 is [m |-> 3000, u |-> 1]).  *)
(* A health score is held in thousandths (100000 stands for 100.0).        *)
(***************************************************************************)
EXTENDS Integers, Sequences, FiniteSets, TLC

VARIABLES
    pc,          \* "new" before ChurnPredictor() has run, then "serving" ("crashed" if it raised)
    modelBlob,   \* ../models/churn_model.pkl  : "absent" | "corrupt" | "good" | "mismatch"
    scalerBlob,  \* ../models/churn_scaler.pkl : "absent" | "corrupt" | "good" | "mismatch"
    model,       \* ChurnPredictor.model  : "None" | "loaded" | "broken" | "unfitted" | "trained"
    scaler,      \* ChurnPredictor.scaler : "unfitted" | "loaded" | "broken" | "fitted"
    log,         \* the messages load_or_train_model and train_model have printed
    pending,     \* the call waiting to be made, [op, arg], or NoCall
    req,         \* the argument of the last call
    ret          \* the outcome of the last call

vars == <<pc, modelBlob, scalerBlob, model, scaler, log, pending, req, ret>>

(***************************************************************************)
(* Python dictionaries and floats                                          *)
(***************************************************************************)
feature_columns ==
    {"tenure_months", "monthly_revenue", "total_interactions",
     "support_tickets", "last_login_days", "feature_usage_score"}

\* dict.get(key, default): a dictionary is a function whose DOMAIN is its keys.
Get(d, key, default) == IF key \in DOMAIN d THEN d[key] ELSE default

\* d[k] = v
With(d, k, v) == [x \in DOMAIN d \cup {k} |-> IF x = k THEN v ELSE d[x]]

F(m, u) == [m |-> m, u |-> u]

FZero == F(0, 0)
FOne == F(10000, 0)

\* x > y and x < y on floats
FGt(x, y) == x.m > y.m \/ (x.m = y.m /\ x.u > y.u)
FLt(x, y) == FGt(y, x)

\* min(x, y) of Python: y when y < x, else x
FMin(x, y) == IF FLt(y, x) THEN y ELSE x

\* risk_score += inc in binary64, round to nearest even, for inc one of
\* 0.1, 0.2, 0.3 and risk_score a sum of at most three such increments.
\* Where the binary64 sum is not the binary64 nearest to the decimal sum the
\* result is listed; everywhere else it is the nearest binary64.
FAddInexact ==
    { <<1000, 0, 2000,  3000,  1>>, <<2000, 0, 1000,  3000,  1>>,
      <<3000, 1, 3000,  6000,  1>>, <<4000, 0, 2000,  6000,  1>>,
      <<6000, 0, 3000,  9000, -1>>, <<6000, 1, 1000,  7000,  1>>,
      <<6000, 1, 3000,  9000,  1>>, <<7000, 0, 1000,  8000, -1>>,
      <<7000, 0, 2000,  9000, -1>>, <<9000, -1, 1000, 10000, -1>>,
      <<9000, -1, 2000, 11000, -1>> }

FAdd(x, inc) ==
    IF \E e \in FAddInexact : e[1] = x.m /\ e[2] = x.u /\ e[3] = inc
    THEN LET e == CHOOSE e \in FAddInexact : e[1] = x.m /\ e[2] = x.u /\ e[3] = inc
         IN  F(e[4], e[5])
    ELSE F(x.m + inc, 0)

(***************************************************************************)
(* Arguments.  A call argument is [mapping, d, strs]: mapping is FALSE for *)
(* a value that is no dictionary (None, a list); strs is the set of keys   *)
(* of d whose value is not a number (a string, null), on which an order    *)
(* comparison or an arithmetic operation raises TypeError.                 *)
(***************************************************************************)
Arg(mapping, d, strs) == [mapping |-> mapping, d |-> d, strs |-> strs]

Dict(d) == Arg(TRUE, d, {})

EmptyDict == [k \in {} |-> 0]

\* reading a dictionary entry with .get raises on a non-dictionary
GetRaises(a) == ~a.mapping

\* comparing or scaling the value read for key raises when it is not a number
NumRaises(a, key) == key \in a.strs

(***************************************************************************)
(* ChurnPredictor                                                          *)
(***************************************************************************)
\* risk_score += inc, for the branches that add something
Bump(x, inc) == IF inc = 0 THEN x ELSE FAdd(x, inc)

\* The four reads of _rule_based_churn_prediction, in the order of the code.
RuleKeys == {"tenure_months", "monthly_revenue", "total_interactions", "last_login_days"}

\* tenure_increment with the first bucket closed at 3 (tenure <= 3)
tenure_increment_inclusive(d) ==
    LET tenure == Get(d, "tenure_months", 0)
    IN  IF tenure <= 3 THEN 3000 ELSE IF tenure < 12 THEN 1000 ELSE 0

tenure_increment(d) ==
    LET tenure == Get(d, "tenure_months", 0)
    IN  IF tenure < 3 THEN 3000 ELSE IF tenure < 12 THEN 1000 ELSE 0

revenue_increment(d) ==
    LET revenue == Get(d, "monthly_revenue", 0)
    IN  IF revenue < 50 THEN 2000 ELSE IF revenue < 100 THEN 1000 ELSE 0

interactions_increment(d) ==
    LET interactions == Get(d, "total_interactions", 0)
    IN  IF interactions < 5 THEN 2000 ELSE 0

\* last_login_increment with a bonus for a login in the last week
\* (risk_score -= 0.1)
last_login_increment_rewarding(d) ==
    LET last_login == Get(d, "last_login_days", 0)
    IN  IF last_login > 30 THEN 3000 ELSE IF last_login > 7 THEN 1000 ELSE 0 - 1000

last_login_increment(d) ==
    LET last_login == Get(d, "last_login_days", 0)
    IN  IF last_login > 30 THEN 3000 ELSE IF last_login > 7 THEN 1000 ELSE 0

\* _rule_based_churn_prediction on a dictionary of numbers
rule_based_value(d) ==
    LET s0 == FZero
        s1 == Bump(s0, tenure_increment(d))
        s2 == Bump(s1, revenue_increment(d))
        s3 == Bump(s2, interactions_increment(d))
        s4 == Bump(s3, last_login_increment(d))
    IN  FMin(s4, FOne)

\* _rule_based_churn_prediction: [raised, prob].  customer_data.get raises
\* AttributeError on a non-dictionary, and a comparison of a non-number with
\* a number raises TypeError; nothing in the function catches either.
rule_based_churn_prediction(a) ==
    IF GetRaises(a) \/ \E k \in RuleKeys : NumRaises(a, k)
    THEN [raised |-> TRUE, prob |-> FZero]
    ELSE [raised |-> FALSE, prob |-> rule_based_value(a.d)]

\* prepare_features never raises: a dictionary is read with .get, anything
\* else with getattr(customer_data, col, 0).  The frame holds a non-number
\* exactly when a dictionary holds one under a feature column.
prepare_features(a) ==
    IF a.mapping THEN a.strs \cap feature_columns ELSE {}

\* The try block of predict_churn in trained mode raises when the scaler or
\* the classifier cannot be applied, or when the frame holds a non-number.
inference_raises(m, sc, a) ==
    \/ sc \in {"unfitted", "broken"}
    \/ prepare_features(a) # {}
    \/ m \in {"unfitted", "broken"}

\* predict_churn with an except branch that also drops the artifact
\* (self.model = None) before falling back
predict_churn_dropping_model(m, sc, a, proba) ==
    LET fallback == rule_based_churn_prediction(a)
    IN  IF m # "None" /\ ~inference_raises(m, sc, a)
        THEN [raised |-> FALSE, prob |-> proba, model |-> m, scaler |-> sc]
        ELSE [raised |-> fallback.raised, prob |-> fallback.prob,
              model |-> "None", scaler |-> sc]

\* predict_churn(customer_data): [raised, prob, model, scaler], model and
\* scaler being the fields of the predictor after the call.  proba is the
\* value predict_proba(...)[0][1] yields when inference succeeds.
predict_churn(m, sc, a, proba) ==
    LET fallback == rule_based_churn_prediction(a)
    IN  IF m # "None" /\ ~inference_raises(m, sc, a)
        THEN [raised |-> FALSE, prob |-> proba, model |-> m, scaler |-> sc]
        ELSE [raised |-> fallback.raised, prob |-> fallback.prob,
              model |-> m, scaler |-> sc]

\* What can happen inside train_model.
TrainOutcomes == {"no_data", "fit_error", "dump_error", "ok"}

\* train_model: [ok, model, scaler, modelBlob, scalerBlob, log, raised].
\* Every exception is caught and turned into False.
train_model(m, sc, mb, sb, lg, outcome) ==
    CASE outcome = "no_data" ->
            [ok |-> FALSE, model |-> m, scaler |-> sc, modelBlob |-> mb,
             scalerBlob |-> sb, log |-> lg \cup {"Error training churn model"},
             raised |-> FALSE]
      [] outcome = "fit_error" ->
            [ok |-> FALSE, model |-> "unfitted", scaler |-> "fitted", modelBlob |-> mb,
             scalerBlob |-> sb, log |-> lg \cup {"Error training churn model"},
             raised |-> FALSE]
      [] outcome = "dump_error" ->
            [ok |-> FALSE, model |-> "trained", scaler |-> "fitted", modelBlob |-> mb,
             scalerBlob |-> sb, log |-> lg \cup {"Error training churn model"},
             raised |-> FALSE]
      [] OTHER ->
            [ok |-> TRUE, model |-> "trained", scaler |-> "fitted", modelBlob |-> "good",
             scalerBlob |-> "good", log |-> lg, raised |-> FALSE]

\* joblib.load of a blob
LoadRaises(blob) == blob \in {"absent", "corrupt"}
Loaded(blob) == IF blob = "mismatch" THEN "broken" ELSE "loaded"

\* load_or_train_model without the self.model = None of the failure branch
load_or_train_model_keeping_model(m, sc, mb, sb, lg, outcome) ==
    IF ~LoadRaises(mb) /\ ~LoadRaises(sb)
    THEN [model |-> Loaded(mb), scaler |-> Loaded(sb), modelBlob |-> mb,
          scalerBlob |-> sb, raised |-> FALSE,
          log |-> lg \cup {"Loaded existing churn prediction model"}]
    ELSE LET m1 == IF LoadRaises(mb) THEN m ELSE Loaded(mb)
             t  == train_model(m1, sc, mb, sb,
                               lg \cup {"Training new churn prediction model..."}, outcome)
         IN  [model |-> t.model, scaler |-> t.scaler, modelBlob |-> t.modelBlob,
              scalerBlob |-> t.scalerBlob, raised |-> t.raised,
              log |-> IF t.ok THEN t.log
                      ELSE t.log \cup {"Using fallback rule-based churn prediction"}]

\* load_or_train_model, entered with the fields __init__ has set
load_or_train_model(m, sc, mb, sb, lg, outcome) ==
    IF ~LoadRaises(mb) /\ ~LoadRaises(sb)
    THEN [model |-> Loaded(mb), scaler |-> Loaded(sb), modelBlob |-> mb,
          scalerBlob |-> sb, raised |-> FALSE,
          log |-> lg \cup {"Loaded existing churn prediction model"}]
    ELSE LET m1 == IF LoadRaises(mb) THEN m ELSE Loaded(mb)
             t  == train_model(m1, sc, mb, sb,
                               lg \cup {"Training new churn prediction model..."}, outcome)
         IN  IF t.ok
             THEN [model |-> t.model, scaler |-> t.scaler, modelBlob |-> t.modelBlob,
                   scalerBlob |-> t.scalerBlob, raised |-> t.raised, log |-> t.log]
             ELSE [model |-> "None", scaler |-> t.scaler, modelBlob |-> t.modelBlob,
                   scalerBlob |-> t.scalerBlob, raised |-> t.raised,
                   log |-> t.log \cup {"Using fallback rule-based churn prediction"}]

(***************************************************************************)
(* HealthScorer.  Sub-scores that can carry a fraction (usage, financial)  *)
(* are held in tenths, the composite in thousandths.                       *)
(***************************************************************************)
\* min(a, b) and max(a, b) of Python on numbers
PyMin(a, b) == IF b < a THEN b ELSE a
PyMax(a, b) == IF b > a THEN b ELSE a

\* calculate_engagement_score reading last_login_days with the default 0
calculate_engagement_score_default_zero(d) ==
    LET interactions == Get(d, "total_interactions", 0)
        last_login_days == Get(d, "last_login_days", 0)
        interaction_score == PyMin(interactions * 2, 50)
        login_score == IF last_login_days <= 1 THEN 50
                       ELSE IF last_login_days <= 7 THEN 40
                       ELSE IF last_login_days <= 30 THEN 20
                       ELSE 0
    IN  interaction_score + login_score

calculate_engagement_score(d) ==
    LET interactions == Get(d, "total_interactions", 0)
        last_login_days == Get(d, "last_login_days", 30)
        interaction_score == PyMin(interactions * 2, 50)
        login_score == IF last_login_days <= 1 THEN 50
                       ELSE IF last_login_days <= 7 THEN 40
                       ELSE IF last_login_days <= 30 THEN 20
                       ELSE 0
    IN  interaction_score + login_score

\* in tenths; feature_usage_score is in tenths too
calculate_usage_score(d) ==
    LET feature_usage == Get(d, "feature_usage_score", 0)
    IN  PyMin(feature_usage * 20, 1000)

calculate_satisfaction_score(d) ==
    LET support_tickets == Get(d, "support_tickets", 0)
    IN  IF support_tickets = 0 THEN 100
        ELSE IF support_tickets <= 2 THEN 80
        ELSE IF support_tickets <= 5 THEN 60
        ELSE 40

\* in tenths: revenue / 10 is revenue tenths
calculate_financial_score(d) ==
    LET revenue == Get(d, "monthly_revenue", 0)
        tenure == Get(d, "tenure_months", 1)
        revenue_score == PyMin(revenue, 700)
        tenure_bonus == PyMin(tenure * 2, 30)
    IN  revenue_score + tenure_bonus * 10

\* calculate_support_score with the 70 bucket ending at 2 tickets
calculate_support_score_shifted(d) ==
    LET support_tickets == Get(d, "support_tickets", 0)
    IN  IF support_tickets = 0 THEN 100
        ELSE IF support_tickets <= 1 THEN 90
        ELSE IF support_tickets <= 2 THEN 70
        ELSE IF support_tickets <= 5 THEN 50
        ELSE 30

calculate_support_score(d) ==
    LET support_tickets == Get(d, "support_tickets", 0)
    IN  IF support_tickets = 0 THEN 100
        ELSE IF support_tickets <= 1 THEN 90
        ELSE IF support_tickets <= 3 THEN 70
        ELSE IF support_tickets <= 5 THEN 50
        ELSE 30

\* self.weights, in hundredths
weights ==
    [engagement |-> 30, usage |-> 25, satisfaction |-> 20, financial |-> 15, support |-> 10]

\* sum(scores[key] * self.weights[key] for key in scores), in thousandths
weighted_sum(d) ==
      calculate_engagement_score(d) * weights.engagement * 10
    + calculate_usage_score(d) * weights.usage
    + calculate_satisfaction_score(d) * weights.satisfaction * 10
    + calculate_financial_score(d) * weights.financial
    + calculate_support_score(d) * weights.support * 10

\* clamp_score without the clamp (return health_score)
clamp_score_unclamped(h) == h

\* min(max(health_score, 0), 100), in thousandths
clamp_score(h) == PyMin(PyMax(h, 0), 100000)

\* calculate_health_score(customer_data), in thousandths
calculate_health_score(d) == clamp_score(weighted_sum(d))

get_health_status(h) ==
    IF h >= 90000 THEN "Excellent"
    ELSE IF h >= 70000 THEN "Good"
    ELSE IF h >= 50000 THEN "Fair"
    ELSE "Poor"

(***************************************************************************)
(* InterventionRecommender                                                 *)
(***************************************************************************)
intervention_strategies ==
    [high_churn_low_engagement |->
        <<"Schedule personal check-in call", "Offer product training session",
          "Provide dedicated customer success manager",
          "Send personalized onboarding materials">>,
     high_churn_low_usage |->
        <<"Offer feature demo session", "Provide use case examples",
          "Schedule product walkthrough", "Send tutorial videos">>,
     high_churn_support_issues |->
        <<"Priority support queue assignment", "Technical expert consultation",
          "Product feedback session", "Escalate to development team">>,
     low_revenue |->
        <<"Discuss upgrade opportunities", "Show ROI calculations",
          "Offer limited-time discount", "Highlight premium features">>,
     engagement_drop |->
        <<"Send re-engagement email campaign", "Offer new feature preview",
          "Schedule product update call", "Provide industry insights">>]

\* keyword in recommendation.lower(), for the action texts of the pools
Contains(recommendation, keyword) ==
    CASE keyword = "call" ->
            recommendation \in {"Schedule personal check-in call", "Schedule product update call"}
      [] keyword = "personal" ->
            recommendation \in {"Schedule personal check-in call",
                                "Send personalized onboarding materials"}
      [] keyword = "training" -> recommendation = "Offer product training session"
      [] keyword = "demo" -> recommendation = "Offer feature demo session"
      [] keyword = "support" -> recommendation = "Priority support queue assignment"
      [] keyword = "technical" -> recommendation = "Technical expert consultation"
      [] keyword = "discount" -> recommendation = "Offer limited-time discount"
      [] keyword = "upgrade" -> recommendation = "Discuss upgrade opportunities"
      [] OTHER -> FALSE

categorize_recommendation(rec) ==
    IF Contains(rec, "call") \/ Contains(rec, "personal") THEN "Personal Outreach"
    ELSE IF Contains(rec, "training") \/ Contains(rec, "demo") THEN "Product Education"
    ELSE IF Contains(rec, "support") \/ Contains(rec, "technical") THEN "Support Enhancement"
    ELSE IF Contains(rec, "discount") \/ Contains(rec, "upgrade") THEN "Commercial"
    ELSE "Engagement"

get_engagement_level(d) ==
    LET interactions == Get(d, "total_interactions", 0)
        last_login == Get(d, "last_login_days", 30)
        engagement_score == interactions * 10
    IN  IF last_login <= 7 THEN engagement_score + 20
        ELSE IF last_login <= 30 THEN engagement_score + 10
        ELSE engagement_score

\* pool[:n]
Take(s, n) == SubSeq(s, 1, PyMin(Len(s), n))

\* list(dict.fromkeys(s)): the first occurrence of every element, in order
RECURSIVE fromkeys(_)
fromkeys(s) ==
    IF s = <<>> THEN <<>>
    ELSE LET init == fromkeys(SubSeq(s, 1, Len(s) - 1))
             last == s[Len(s)]
         IN  IF \E i \in 1..Len(init) : init[i] = last THEN init ELSE Append(init, last)

\* the risk the tier is selected on: churn_risk, overridden by churn_probability
\* (dictionary entries are decimals, held in units of 1/10000)
selected_risk(d) ==
    IF "churn_probability" \in DOMAIN d THEN F(d["churn_probability"], 0)
    ELSE F(Get(d, "churn_risk", 0), 0)

\* candidates with the medium tier tested by an if of its own (if for elif),
\* so that a risk above 0.7 passes both tests
candidates_without_elif(d) ==
    LET churn_risk == selected_risk(d)
        high == IF FGt(churn_risk, F(7000, 0))
                THEN (IF get_engagement_level(d) < 50
                      THEN Take(intervention_strategies.high_churn_low_engagement, 2)
                      ELSE <<>>)
                     \o (IF Get(d, "feature_usage_score", 0) < 30
                         THEN Take(intervention_strategies.high_churn_low_usage, 2)
                         ELSE <<>>)
                     \o (IF Get(d, "support_tickets", 0) > 3
                         THEN Take(intervention_strategies.high_churn_support_issues, 1)
                         ELSE <<>>)
                ELSE <<>>
        medium == IF FGt(churn_risk, F(4000, 0)) /\ Get(d, "last_login_days", 0) > 14
                  THEN Take(intervention_strategies.engagement_drop, 2)
                  ELSE <<>>
        low  == IF Get(d, "monthly_revenue", 0) < 100
                THEN Take(intervention_strategies.low_revenue, 1)
                ELSE <<>>
    IN  high \o medium \o low

\* candidates with the low-revenue test written <= 100
candidates_revenue_inclusive(d) ==
    LET churn_risk == selected_risk(d)
        high == IF FGt(churn_risk, F(7000, 0))
                THEN (IF get_engagement_level(d) < 50
                      THEN Take(intervention_strategies.high_churn_low_engagement, 2)
                      ELSE <<>>)
                     \o (IF Get(d, "feature_usage_score", 0) < 30
                         THEN Take(intervention_strategies.high_churn_low_usage, 2)
                         ELSE <<>>)
                     \o (IF Get(d, "support_tickets", 0) > 3
                         THEN Take(intervention_strategies.high_churn_support_issues, 1)
                         ELSE <<>>)
                ELSE IF FGt(churn_risk, F(4000, 0))
                THEN (IF Get(d, "last_login_days", 0) > 14
                      THEN Take(intervention_strategies.engagement_drop, 2)
                      ELSE <<>>)
                ELSE <<>>
        low  == IF Get(d, "monthly_revenue", 0) <= 100
                THEN Take(intervention_strategies.low_revenue, 1)
                ELSE <<>>
    IN  high \o low

\* candidates that put the engagement_drop items first when the health_score
\* read at line 305 is below 60 (health_score in thousandths)
candidates_reading_health(d) ==
    LET churn_risk == selected_risk(d)
        health_score == Get(d, "health_score", 100000)
        poor == IF health_score < 60000
                THEN Take(intervention_strategies.engagement_drop, 2)
                ELSE <<>>
        high == IF FGt(churn_risk, F(7000, 0))
                THEN (IF get_engagement_level(d) < 50
                      THEN Take(intervention_strategies.high_churn_low_engagement, 2)
                      ELSE <<>>)
                     \o (IF Get(d, "feature_usage_score", 0) < 30
                         THEN Take(intervention_strategies.high_churn_low_usage, 2)
                         ELSE <<>>)
                     \o (IF Get(d, "support_tickets", 0) > 3
                         THEN Take(intervention_strategies.high_churn_support_issues, 1)
                         ELSE <<>>)
                ELSE IF FGt(churn_risk, F(4000, 0))
                THEN (IF Get(d, "last_login_days", 0) > 14
                      THEN Take(intervention_strategies.engagement_drop, 2)
                      ELSE <<>>)
                ELSE <<>>
        low  == IF Get(d, "monthly_revenue", 0) < 100
                THEN Take(intervention_strategies.low_revenue, 1)
                ELSE <<>>
    IN  poor \o high \o low

\* the candidates appended before deduplication
candidates(d) ==
    LET churn_risk == selected_risk(d)
        high == IF FGt(churn_risk, F(7000, 0))
                THEN (IF get_engagement_level(d) < 50
                      THEN Take(intervention_strategies.high_churn_low_engagement, 2)
                      ELSE <<>>)
                     \o (IF Get(d, "feature_usage_score", 0) < 30
                         THEN Take(intervention_strategies.high_churn_low_usage, 2)
                         ELSE <<>>)
                     \o (IF Get(d, "support_tickets", 0) > 3
                         THEN Take(intervention_strategies.high_churn_support_issues, 1)
                         ELSE <<>>)
                ELSE IF FGt(churn_risk, F(4000, 0))
                THEN (IF Get(d, "last_login_days", 0) > 14
                      THEN Take(intervention_strategies.engagement_drop, 2)
                      ELSE <<>>)
                ELSE <<>>
        low  == IF Get(d, "monthly_revenue", 0) < 100
                THEN Take(intervention_strategies.low_revenue, 1)
                ELSE <<>>
    IN  high \o low

\* limit_recommendations without the [:5]
limit_recommendations_unlimited(recs) == fromkeys(recs)

\* recommendations = list(dict.fromkeys(recommendations))[:5]
limit_recommendations(recs) == Take(fromkeys(recs), 5)

\* priority_of with <= for <
priority_of_off_by_one(i) == IF i <= 2 THEN "High" ELSE IF i <= 4 THEN "Medium" ELSE "Low"

\* 'High' if i < 2 else 'Medium' if i < 4 else 'Low', i counted from 0
priority_of(i) == IF i < 2 THEN "High" ELSE IF i < 4 THEN "Medium" ELSE "Low"

prioritize(recs) ==
    [i \in 1..Len(recs) |->
        [action |-> recs[i], priority |-> priority_of(i - 1),
         category |-> categorize_recommendation(recs[i])]]

\* get_recommendations(customer_data)
get_recommendations(d) == prioritize(limit_recommendations(candidates(d)))

(***************************************************************************)
(* Calls on malformed arguments: what the three entry points do when the   *)
(* argument is no dictionary or holds a non-number.                        *)
(***************************************************************************)
\* calculate_health_score reads and computes with all six fields
health_raises(a) == GetRaises(a) \/ \E k \in feature_columns : NumRaises(a, k)

\* churn_risk > 0.7 raises when the entry the risk is taken from is no number
selected_risk_raises(a) ==
    IF "churn_probability" \in DOMAIN a.d
    THEN NumRaises(a, "churn_probability")
    ELSE NumRaises(a, "churn_risk")

\* get_recommendations computes only with the fields of the branch it takes
recommendations_raises(a) ==
    \/ GetRaises(a)
    \/ selected_risk_raises(a)
    \/ NumRaises(a, "monthly_revenue")
    \/ /\ FGt(selected_risk(a.d), F(7000, 0))
       /\ \E k \in {"total_interactions", "last_login_days",
                    "feature_usage_score", "support_tickets"} : NumRaises(a, k)
    \/ /\ ~FGt(selected_risk(a.d), F(7000, 0))
       /\ FGt(selected_risk(a.d), F(4000, 0))
       /\ NumRaises(a, "last_login_days")

(***************************************************************************)
(* API handlers (app.py)                                                   *)
(***************************************************************************)
\* 'High' if churn_prob > 0.7 else 'Medium' if churn_prob > 0.4 else 'Low'
risk_level(churn_prob) ==
    IF FGt(churn_prob, F(7000, 0)) THEN "High"
    ELSE IF FGt(churn_prob, F(4000, 0)) THEN "Medium"
    ELSE "Low"

\* round(x, 3) of a float: the nearest multiple of 0.001.  A value halfway
\* between two multiples is decided by its binary expansion, which [m, u]
\* does not hold: no value of the model is one.
round3(x) ==
    CASE x.m % 10 < 5 -> F(x.m - (x.m % 10), 0)
      [] x.m % 10 > 5 -> F(x.m - (x.m % 10) + 10, 0)

\* Health scores (in thousandths) ending in 5 whose binary64 value lies above
\* the decimal tie, so that round(health_score, 2) goes up, and those whose
\* binary64 value lies below it.  Computed with Python on the profiles of
\* HealthRequests; a tie outside both sets has no branch in round2.
Round2TiesUp ==
    {64995, 65995, 67995, 69995, 72995, 74995, 76995, 77995, 81995, 86995}

Round2TiesDown == {55995, 60995}

\* round(health_score, 2), in thousandths
round2(h) ==
    CASE h % 10 < 5 -> h - (h % 10)
      [] h % 10 > 5 -> h - (h % 10) + 10
      [] h \in Round2TiesUp -> h + 5
      [] h \in Round2TiesDown -> h - 5

(***************************************************************************)
(* State machine                                                           *)
(***************************************************************************)
NoCall == [op |-> "none", arg |-> Dict(EmptyDict)]

\* the outcome of a call: which fields carry a value depends on op.  For an
\* API handler prob is the churn probability before rounding and shown the
\* churn_probability of the response, score the health score before rounding
\* and shownScore the health_score of the response, risk the value
\* get_recommendations selected its tier on, rows the entries of a list
\* response, and label "error" a 500 and "not_found" a 404 response.
Ret(op, raised, prob, score, recs, label) ==
    [op |-> op, raised |-> raised, prob |-> prob, score |-> score,
     recs |-> recs, label |-> label, shown |-> FZero, shownScore |-> 0,
     risk |-> FZero, rows |-> <<>>]

NoRet == Ret("none", FALSE, FZero, 0, <<>>, "")

\* churn_predictor = ChurnPredictor()
Construct ==
    /\ pc = "new"
    /\ \E outcome \in TrainOutcomes :
          LET r == load_or_train_model("None", "unfitted", modelBlob, scalerBlob, {}, outcome)
          IN  /\ model' = r.model
              /\ scaler' = r.scaler
              /\ modelBlob' = r.modelBlob
              /\ scalerBlob' = r.scalerBlob
              /\ log' = r.log
              /\ pc' = IF r.raised THEN "crashed" ELSE "serving"
    /\ UNCHANGED <<pending, req, ret>>

\* churn_predictor.predict_churn(a)
PredictChurnOf(a, proba) ==
    /\ pc = "serving"
    /\ LET r == predict_churn(model, scaler, a, proba)
       IN  /\ model' = r.model
           /\ scaler' = r.scaler
           /\ ret' = Ret("predict_churn", r.raised, r.prob, 0, <<>>, "")
    /\ req' = a
    /\ UNCHANGED <<pc, modelBlob, scalerBlob, log>>

\* health_scorer.calculate_health_score(a)
CalculateHealthScoreOf(a) ==
    /\ pc = "serving"
    /\ ret' = IF health_raises(a)
              THEN Ret("calculate_health_score", TRUE, FZero, 0, <<>>, "")
              ELSE Ret("calculate_health_score", FALSE, FZero,
                       calculate_health_score(a.d), <<>>, "")
    /\ req' = a
    /\ UNCHANGED <<pc, modelBlob, scalerBlob, model, scaler, log>>

\* intervention_recommender.get_recommendations(a)
GetRecommendationsOf(a) ==
    /\ pc = "serving"
    /\ ret' = IF recommendations_raises(a)
              THEN Ret("get_recommendations", TRUE, FZero, 0, <<>>, "")
              ELSE Ret("get_recommendations", FALSE, FZero, 0,
                       get_recommendations(a.d), "")
    /\ req' = a
    /\ UNCHANGED <<pc, modelBlob, scalerBlob, model, scaler, log>>

\* POST /api/predict-churn: an exception becomes a 500 response
ApiPredictChurnOf(a, proba) ==
    /\ pc = "serving"
    /\ LET r == predict_churn(model, scaler, a, proba)
       IN  /\ model' = r.model
           /\ scaler' = r.scaler
           /\ ret' = IF r.raised
                     THEN Ret("api_predict_churn", TRUE, FZero, 0, <<>>, "error")
                     ELSE [Ret("api_predict_churn", FALSE, r.prob, 0, <<>>,
                               risk_level(r.prob)) EXCEPT !.shown = round3(r.prob)]
    /\ req' = a
    /\ UNCHANGED <<pc, modelBlob, scalerBlob, log>>

\* POST /api/health-score
ApiCalculateHealthOf(a) ==
    /\ pc = "serving"
    /\ ret' = IF health_raises(a)
              THEN Ret("api_health_score", TRUE, FZero, 0, <<>>, "error")
              ELSE LET health_score == calculate_health_score(a.d)
                   IN  [Ret("api_health_score", FALSE, FZero, health_score, <<>>,
                            get_health_status(health_score))
                           EXCEPT !.shownScore = round2(health_score)]
    /\ req' = a
    /\ UNCHANGED <<pc, modelBlob, scalerBlob, model, scaler, log>>

\* POST /api/recommendations
ApiGetRecommendationsOf(a) ==
    /\ pc = "serving"
    /\ ret' = IF recommendations_raises(a)
              THEN Ret("api_recommendations", TRUE, FZero, 0, <<>>, "error")
              ELSE [Ret("api_recommendations", FALSE, FZero, 0,
                        get_recommendations(a.d), "")
                       EXCEPT !.risk = selected_risk(a.d)]
    /\ req' = a
    /\ UNCHANGED <<pc, modelBlob, scalerBlob, model, scaler, log>>

\* customer_dict['churn_probability'] = round(churn_prob, 3)
with_churn_probability(customer, p) ==
    With(customer, "churn_probability", round3(p.prob).m)

\* customer_dict['health_score'] = round(health_score, 2)
with_health_score(customer_dict, health_score) ==
    With(customer_dict, "health_score", round2(health_score))

\* the entry appended to customers_data, with the probability before rounding
\* and the risk get_recommendations selected on kept next to it;
\* recommendations are added if churn_prob > 0.5
listed_entry(p, health_score, customer_dict, listed) ==
    [raised |-> p.raised, model |-> p.model, scaler |-> p.scaler,
     prob |-> p.prob, shown |-> round3(p.prob),
     score |-> health_score, shownScore |-> round2(health_score),
     listed |-> listed,
     risk |-> IF listed THEN selected_risk(customer_dict) ELSE FZero,
     recs |-> IF listed THEN get_recommendations(customer_dict) ELSE <<>>]

scored_entry(p, health_score, customer_dict) ==
    listed_entry(p, health_score, with_health_score(customer_dict, health_score),
                 FGt(p.prob, F(5000, 0)))

predicted_entry(p, customer_dict) ==
    scored_entry(p, calculate_health_score(customer_dict), customer_dict)

\* one pass of the loop of get_customers over a row of customers.csv
customer_entry(customer, p) ==
    predicted_entry(p, with_churn_probability(customer, p))

\* the loop after one more row: an exception ends it
next_entry(before, e) ==
    IF e.raised
    THEN [raised |-> TRUE, model |-> e.model, scaler |-> e.scaler, entries |-> <<>>]
    ELSE [raised |-> FALSE, model |-> e.model, scaler |-> e.scaler,
          entries |-> Append(before.entries, e)]

next_row(before, customer, proba) ==
    IF before.raised THEN before
    ELSE next_entry(before,
                    customer_entry(customer,
                                   predict_churn(before.model, before.scaler,
                                                 Dict(customer), proba)))

\* for _, customer in customers.iterrows(): ...; after[i] is the state after
\* the first i rows
customers_data(m, sc, rows, probas) ==
    LET after[i \in 0..Len(rows)] ==
            IF i = 0
            THEN [raised |-> FALSE, model |-> m, scaler |-> sc, entries |-> <<>>]
            ELSE next_row(after[i - 1], rows[i], probas[i])
    IN  after[Len(rows)]

\* return jsonify(customers_data), or the 500 of the except branch
customers_response(r) ==
    /\ model' = r.model
    /\ scaler' = r.scaler
    /\ ret' = IF r.raised
              THEN Ret("api_customers", TRUE, FZero, 0, <<>>, "error")
              ELSE [Ret("api_customers", FALSE, FZero, 0, <<>>, "")
                       EXCEPT !.rows = r.entries]

\* GET /api/customers on the customers.csv of the request; a file that cannot
\* be read is an empty DataFrame
ApiGetCustomersOf(table, probas) ==
    /\ pc = "serving"
    /\ customers_response(customers_data(model, scaler,
                                         IF table.readable THEN table.rows ELSE <<>>,
                                         probas))
    /\ req' = Dict(EmptyDict)
    /\ UNCHANGED <<pc, modelBlob, scalerBlob, log>>

\* GET /api/customer/<customer_id>: the empty DataFrame of an unreadable file
\* has no customer_id column (KeyError, 500); no row with the id is a 404
ApiGetCustomerOf(table, customer_id, proba) ==
    /\ pc = "serving"
    /\ LET IsCustomer(row) == row.customer_id = customer_id
           customer == IF table.readable THEN SelectSeq(table.rows, IsCustomer) ELSE <<>>
       IN  IF ~table.readable
           THEN /\ ret' = Ret("api_customer", TRUE, FZero, 0, <<>>, "error")
                /\ req' = Dict(EmptyDict)
                /\ UNCHANGED <<model, scaler>>
           ELSE IF customer = <<>>
           THEN /\ ret' = Ret("api_customer", FALSE, FZero, 0, <<>>, "not_found")
                /\ req' = Dict(EmptyDict)
                /\ UNCHANGED <<model, scaler>>
           ELSE LET customer_data == customer[1]
                    p == predict_churn(model, scaler, Dict(customer_data), proba)
                    health_score == calculate_health_score(customer_data)
                IN  /\ model' = p.model
                    /\ scaler' = p.scaler
                    /\ req' = Dict(customer_data)
                    /\ ret' = IF p.raised
                              THEN Ret("api_customer", TRUE, FZero, 0, <<>>, "error")
                              ELSE [Ret("api_customer", FALSE, p.prob, health_score,
                                        get_recommendations(customer_data), "")
                                       EXCEPT !.shown = round3(p.prob),
                                              !.shownScore = round2(health_score),
                                              !.risk = selected_risk(customer_data)]
    /\ UNCHANGED <<pc, modelBlob, scalerBlob, log>>

(***************************************************************************)
(* Specification of the service: construction, then calls in any order.    *)
(***************************************************************************)
Blobs == {"absent", "corrupt", "good", "mismatch"}

\* the customers of tests/test_system.py
HighRiskCustomer ==
    [tenure_months |-> 3, monthly_revenue |-> 45, total_interactions |-> 8,
     support_tickets |-> 6, last_login_days |-> 21, feature_usage_score |-> 12]

HealthyCustomer ==
    [tenure_months |-> 24, monthly_revenue |-> 350, total_interactions |-> 85,
     support_tickets |-> 1, last_login_days |-> 1, feature_usage_score |-> 48]

RecommendationCustomer ==
    [tenure_months |-> 6, monthly_revenue |-> 75, total_interactions |-> 15,
     support_tickets |-> 4, last_login_days |-> 14, feature_usage_score |-> 21,
     churn_probability |-> 6500]

\* arguments of the calls of the service: well-formed ones, a non-dictionary,
\* and dictionaries holding a string
ServiceArgs ==
    { Dict(HighRiskCustomer), Dict(HealthyCustomer), Dict(RecommendationCustomer),
      Dict(EmptyDict),
      Arg(FALSE, EmptyDict, {}),
      Arg(TRUE, HighRiskCustomer, {"tenure_months"}),
      Arg(TRUE, HighRiskCustomer, {"support_tickets"}) }

\* values predict_proba yields
ProbVals == {F(0, 0), F(3500, 0), F(7004, 0), F(10000, 0)}

Init ==
    /\ pc = "new"
    /\ modelBlob \in Blobs
    /\ scalerBlob \in Blobs
    /\ model = "None"
    /\ scaler = "unfitted"
    /\ log = {}
    /\ pending = NoCall
    /\ req = Dict(EmptyDict)
    /\ ret = NoRet

PredictChurn ==
    \E a \in ServiceArgs, proba \in ProbVals :
        PredictChurnOf(a, proba) /\ UNCHANGED pending

CalculateHealthScore ==
    \E a \in ServiceArgs : CalculateHealthScoreOf(a) /\ UNCHANGED pending

GetRecommendations ==
    \E a \in ServiceArgs : GetRecommendationsOf(a) /\ UNCHANGED pending

ApiPredictChurn ==
    \E a \in ServiceArgs, proba \in ProbVals :
        ApiPredictChurnOf(a, proba) /\ UNCHANGED pending

Next ==
    \/ Construct
    \/ PredictChurn
    \/ CalculateHealthScore
    \/ GetRecommendations
    \/ ApiPredictChurn

Spec == Init /\ [][Next]_vars

(***************************************************************************)
(* Specification of the engine on its own: one call, drawn from bounded    *)
(* sets of customers, made on a predictor that found no artifact and no    *)
(* training data (rule-based mode).                                        *)
(***************************************************************************)
MaxTickets == 6

\* a field that may be absent: <<>> or <<value>>
Opt(V) == {<<>>} \cup {<<v>> : v \in V}

\* the dictionary holding the fields that are present
MkDict(o) == [k \in {x \in DOMAIN o : o[x] # <<>>} |-> o[k][1]]

RuleCustomers ==
    { MkDict([tenure_months |-> t, monthly_revenue |-> r, total_interactions |-> i,
              last_login_days |-> l, support_tickets |-> s, feature_usage_score |-> u]) :
        t \in Opt({0, 2, 3, 11, 12}), r \in Opt({0, 49, 50, 99, 100}),
        i \in Opt({0, 4, 5}), l \in Opt({0, 7, 8, 30, 31}),
        s \in Opt({MaxTickets}), u \in Opt({12}) }

HealthCustomers ==
    { MkDict([tenure_months |-> t, monthly_revenue |-> r, total_interactions |-> i,
              last_login_days |-> l, support_tickets |-> s, feature_usage_score |-> u]) :
        t \in Opt({0, 15, 16}), r \in Opt({0, 700, 701}),
        i \in Opt({0 - 200, 0, 25, 26}), l \in Opt({1, 2, 7, 8, 30, 31}),
        s \in Opt(0..MaxTickets), u \in Opt({0, 50, 51}) }

RecommendationCustomers ==
    { MkDict([churn_risk |-> cr, churn_probability |-> cp, health_score |-> h,
              monthly_revenue |-> r, total_interactions |-> i,
              last_login_days |-> l, support_tickets |-> s, feature_usage_score |-> u]) :
        cr \in Opt({8000}), cp \in Opt({4000, 4001, 7000, 7001}), h \in Opt({50000}),
        r \in Opt({99, 100}), i \in Opt({2, 3, 4, 5}),
        l \in Opt({7, 8, 14, 15, 30, 31}), s \in Opt({3, 4}), u \in Opt({29, 30}) }

EngineCalls ==
         {[op |-> "predict_churn", arg |-> Dict(d)] : d \in RuleCustomers}
    \cup {[op |-> "calculate_health_score", arg |-> Dict(d)] : d \in HealthCustomers}
    \cup {[op |-> "get_recommendations", arg |-> Dict(d)] : d \in RecommendationCustomers}

InitEngine ==
    LET r == load_or_train_model("None", "unfitted", "absent", "absent", {}, "no_data")
    IN  /\ pc = "serving"
        /\ modelBlob = r.modelBlob
        /\ scalerBlob = r.scalerBlob
        /\ model = r.model
        /\ scaler = r.scaler
        /\ log = r.log
        /\ pending \in EngineCalls
        /\ req = Dict(EmptyDict)
        /\ ret = NoRet

ServePredictChurn ==
    /\ pending.op = "predict_churn"
    /\ PredictChurnOf(pending.arg, FZero)
    /\ pending' = NoCall

ServeCalculateHealthScore ==
    /\ pending.op = "calculate_health_score"
    /\ CalculateHealthScoreOf(pending.arg)
    /\ pending' = NoCall

ServeGetRecommendations ==
    /\ pending.op = "get_recommendations"
    /\ GetRecommendationsOf(pending.arg)
    /\ pending' = NoCall

NextEngine ==
    \/ ServePredictChurn
    \/ ServeCalculateHealthScore
    \/ ServeGetRecommendations

SpecEngine == InitEngine /\ [][NextEngine]_vars

(***************************************************************************)
(* Specification of the API: construction, then one request, drawn with    *)
(* the customers.csv it is served from.                                    *)
(***************************************************************************)
MaxCsvRows == 2

\* two customers of customers.csv, by their feature columns and the
\* churn_risk column (in 1/10000): one the rules put at 0.3 + 0.1 + 0.2 + 0.1
\* whose churn_risk is 0.2, one the rules put at 0 whose churn_risk is 0.8
CsvProfiles ==
    { [tenure_months |-> 1, monthly_revenue |-> 76, total_interactions |-> 2,
       support_tickets |-> 4, last_login_days |-> 20, feature_usage_score |-> 21,
       churn_risk |-> 2000],
      [tenure_months |-> 24, monthly_revenue |-> 350, total_interactions |-> 85,
       support_tickets |-> 1, last_login_days |-> 1, feature_usage_score |-> 48,
       churn_risk |-> 8000] }

\* rows of customers.csv: a profile and the columns customer_id and
\* health_score (in thousandths)
CsvRows ==
    { With(With(c, "customer_id", id), "health_score", 50000) :
        c \in CsvProfiles, id \in {1, 2} }

\* what pd.read_csv finds: no readable file, or a table of rows
CsvTables ==
    {[readable |-> FALSE, rows |-> <<>>]}
    \cup {[readable |-> TRUE, rows |-> rows] :
            rows \in UNION {[1..n -> CsvRows] : n \in 0..MaxCsvRows}}

\* request.json of /api/predict-churn
ChurnRequests ==
    ServiceArgs \cup {Dict(c) : c \in CsvProfiles}

\* request.json of /api/health-score
HealthRequests ==
    { Dict([tenure_months |-> 0, monthly_revenue |-> r, total_interactions |-> i,
            last_login_days |-> l, support_tickets |-> s, feature_usage_score |-> u]) :
        r \in {132, 133}, i \in {5, 25}, l \in {1, 30}, s \in {0, 1}, u \in {40, 50} }
    \cup {Dict(EmptyDict), Arg(FALSE, EmptyDict, {}),
          Arg(TRUE, HighRiskCustomer, {"support_tickets"})}

ApiRequests ==
         {[op |-> "api_predict_churn", arg |-> a] : a \in ChurnRequests}
    \cup {[op |-> "api_health_score", arg |-> a] : a \in HealthRequests}
    \cup {[op |-> "api_recommendations", arg |-> a] : a \in ServiceArgs}
    \cup {[op |-> "api_customers", table |-> t] : t \in CsvTables}
    \cup {[op |-> "api_customer", table |-> t, customer_id |-> id] :
            t \in CsvTables, id \in {1, 2}}

InitApi ==
    /\ pc = "new"
    /\ modelBlob \in Blobs
    /\ scalerBlob \in Blobs
    /\ model = "None"
    /\ scaler = "unfitted"
    /\ log = {}
    /\ pending \in ApiRequests
    /\ req = Dict(EmptyDict)
    /\ ret = NoRet

ServeApiPredictChurn ==
    /\ pending.op = "api_predict_churn"
    /\ \E proba \in ProbVals : ApiPredictChurnOf(pending.arg, proba)
    /\ pending' = NoCall

ServeApiCalculateHealth ==
    /\ pending.op = "api_health_score"
    /\ ApiCalculateHealthOf(pending.arg)
    /\ pending' = NoCall

ServeApiGetRecommendations ==
    /\ pending.op = "api_recommendations"
    /\ ApiGetRecommendationsOf(pending.arg)
    /\ pending' = NoCall

ServeApiGetCustomers ==
    /\ pending.op = "api_customers"
    /\ \E probas \in [1..MaxCsvRows -> ProbVals] :
          ApiGetCustomersOf(pending.table, probas)
    /\ pending' = NoCall

ServeApiGetCustomer ==
    /\ pending.op = "api_customer"
    /\ \E proba \in ProbVals :
          ApiGetCustomerOf(pending.table, pending.customer_id, proba)
    /\ pending' = NoCall

NextApi ==
    \/ Construct
    \/ ServeApiPredictChurn
    \/ ServeApiCalculateHealth
    \/ ServeApiGetRecommendations
    \/ ServeApiGetCustomers
    \/ ServeApiGetCustomer

SpecApi == InitApi /\ [][NextApi]_vars

(***************************************************************************)
(* Properties of the service (Spec)                                        *)
(***************************************************************************)
\* 0 <= x <= 1
InUnit(x) == ~FLt(x, FZero) /\ ~FGt(x, FOne)

\* the load of load_or_train_model failed / the training that followed failed
LoadFailed == "Training new churn prediction model..." \in log
TrainingFailed == "Error training churn model" \in log

\* C1: predict_churn never raises and returns a value in [0,1], whatever the
\* argument and the artifact.
C1_PredictChurnNeverRaises ==
    ret.op = "predict_churn" => (~ret.raised /\ InUnit(ret.prob))

\* C2 as stated: construction does not fail, and a predictor whose load of
\* either blob failed has no artifact (rule-based mode).
C2_LoadFailureMeansRuleBased ==
    /\ pc # "crashed"
    /\ (pc = "serving" /\ LoadFailed) => model = "None"

\* C2 amended: construction does not fail; after a failed load the predictor
\* trains; it has no artifact, and its estimates are the rule-based ones,
\* exactly when that training failed too, and otherwise serves the model it
\* has just trained.
C2_LoadFailureTrainsOrFallsBack ==
    /\ pc # "crashed"
    /\ (pc = "serving" /\ LoadFailed) =>
          /\ TrainingFailed <=> model = "None"
          /\ ~TrainingFailed => (model = "trained" /\ scaler = "fitted")
          /\ (TrainingFailed /\ ret.op = "predict_churn" /\ ~ret.raised) =>
                ret.prob = rule_based_value(req.d)

\* C2 witness: the classifier blob loaded, the scaler blob did not, training
\* failed, and an estimate has been served in rule-based mode.
C2_Witness ==
    /\ pc = "serving"
    /\ modelBlob = "good"
    /\ LoadFailed
    /\ TrainingFailed
    /\ model = "None"
    /\ ret.op = "predict_churn"
    /\ ~ret.raised
    /\ req = Dict(HighRiskCustomer)

\* C3: once construction has finished, no call changes model or scaler.
C3_ServingKeepsArtifact ==
    [][pc = "serving" => (model' = model /\ scaler' = scaler)]_vars

\* C3 witness: a predictor holding a loaded classifier that cannot be applied
\* has served an estimate through its except branch and still holds it.
C3_Witness ==
    /\ pc = "serving"
    /\ model = "broken"
    /\ ret.op = "predict_churn"
    /\ ~ret.raised
    /\ ret.prob = rule_based_value(req.d)
    /\ req = Dict(HighRiskCustomer)

\* C9: in rule-based mode the high-risk customer of the tests gets an
\* estimate above 0.5 and the risk level High.
C9_HighRiskCustomerIsHigh ==
    (ret.op = "api_predict_churn" /\ model = "None" /\ req = Dict(HighRiskCustomer)) =>
        (FGt(ret.prob, F(5000, 0)) /\ ret.label = "High")

(***************************************************************************)
(* Properties of the engine (SpecEngine)                                   *)
(***************************************************************************)
\* d with d[k] = v

\* the value the last call returned, and the value the same entry point
\* returns for the dictionary d
Returned ==
    CASE ret.op = "predict_churn" -> ret.prob
      [] ret.op = "calculate_health_score" -> ret.score
      [] ret.op = "get_recommendations" -> ret.recs

ResultOn(op, d) ==
    CASE op = "predict_churn" -> rule_based_value(d)
      [] op = "calculate_health_score" -> calculate_health_score(d)
      [] op = "get_recommendations" -> get_recommendations(d)

EngineOps == {"predict_churn", "calculate_health_score", "get_recommendations"}

Served == ret.op \in EngineOps /\ ~ret.raised

\* C4 as stated: in all three components a call with a field absent returns
\* what the call with that field equal to 0 returns.
C4_AbsentIsZero ==
    Served =>
        \A k \in feature_columns \ DOMAIN req.d :
            Returned = ResultOn(ret.op, With(req.d, k, 0))

\* the value an absent field stands for
DefaultFor(op, k, d) ==
    CASE op = "calculate_health_score" /\ k = "last_login_days" -> 30
      [] op = "calculate_health_score" /\ k = "tenure_months" -> 1
      [] op = "get_recommendations" /\ k = "last_login_days"
            /\ FGt(selected_risk(d), F(7000, 0)) -> 30
      [] OTHER -> 0

\* C4 amended: an absent field stands for 0, except that an absent
\* last_login_days stands for 30 in calculate_health_score and in the high
\* tier (risk > 0.7) of get_recommendations, and an absent tenure_months
\* stands for 1 in calculate_health_score.
C4_AbsentIsDefault ==
    Served =>
        \A k \in feature_columns \ DOMAIN req.d :
            Returned = ResultOn(ret.op, With(req.d, k, DefaultFor(ret.op, k, req.d)))

\* C4 witness: a health score computed without last_login_days is the score
\* for 30 days and not the score for 0 days.
C4_Witness ==
    /\ ret.op = "calculate_health_score"
    /\ "last_login_days" \notin DOMAIN req.d
    /\ ret.score = calculate_health_score(With(req.d, "last_login_days", 30))
    /\ ret.score # calculate_health_score(With(req.d, "last_login_days", 0))

NonNegative(d) == \A k \in DOMAIN d : d[k] >= 0

\* C5: the rule-based estimate of a customer with non-negative fields is in [0,1].
C5_RuleBasedInUnit ==
    (ret.op = "predict_churn" /\ ~ret.raised /\ NonNegative(req.d)) => InUnit(ret.prob)

\* C5 witness: every signal adds its largest increment and the estimate is 1.0.
C5_Witness ==
    /\ ret.op = "predict_churn"
    /\ NonNegative(req.d)
    /\ Get(req.d, "tenure_months", 0) < 3
    /\ Get(req.d, "monthly_revenue", 0) < 50
    /\ Get(req.d, "total_interactions", 0) < 5
    /\ Get(req.d, "last_login_days", 0) > 30
    /\ ret.prob = FOne

\* C6: calculate_health_score returns a value in [0,100].
C6_HealthScoreInRange ==
    (ret.op = "calculate_health_score" /\ ~ret.raised) =>
        (ret.score >= 0 /\ ret.score <= 100000)

\* C6 witness: a weighted sum below 0 has been clamped to 0.
C6_Witness ==
    /\ ret.op = "calculate_health_score"
    /\ weighted_sum(req.d) < 0
    /\ ret.score = 0

\* C7: get_recommendations returns at most 5 entries, no two with the same action.
C7_AtMostFiveDistinct ==
    (ret.op = "get_recommendations" /\ ~ret.raised) =>
        /\ Len(ret.recs) <= 5
        /\ \A i, j \in 1..Len(ret.recs) :
              ret.recs[i].action = ret.recs[j].action => i = j

\* C7 witness: six candidates were selected and five returned.
C7_Witness ==
    /\ ret.op = "get_recommendations"
    /\ Len(candidates(req.d)) = 6
    /\ Len(ret.recs) = 5

\* C8: the priority of an entry is High at indices 0 and 1, Medium at 2 and 3,
\* Low at 4, so priorities never rise along the list.
PriorityRank(p) == CASE p = "High" -> 0 [] p = "Medium" -> 1 [] p = "Low" -> 2

C8_PriorityByPosition ==
    (ret.op = "get_recommendations" /\ ~ret.raised) =>
        /\ \A i \in 1..Len(ret.recs) :
              ret.recs[i].priority =
                  (IF i <= 2 THEN "High" ELSE IF i <= 4 THEN "Medium" ELSE "Low")
        /\ \A i, j \in 1..Len(ret.recs) :
              i < j => PriorityRank(ret.recs[i].priority) <= PriorityRank(ret.recs[j].priority)

\* C8 witness: a list of five entries ending Medium, Medium, Low.
C8_Witness ==
    /\ ret.op = "get_recommendations"
    /\ Len(ret.recs) = 5
    /\ ret.recs[3].priority = "Medium"
    /\ ret.recs[5].priority = "Low"

\* the increments of the documented table
DocumentedIncrements(d) ==
    LET tenure == Get(d, "tenure_months", 0)
        revenue == Get(d, "monthly_revenue", 0)
        interactions == Get(d, "total_interactions", 0)
        login == Get(d, "last_login_days", 0)
    IN  << IF tenure < 3 THEN 3000 ELSE IF tenure >= 3 /\ tenure <= 11 THEN 1000 ELSE 0,
           IF revenue < 50 THEN 2000 ELSE IF revenue >= 50 /\ revenue <= 99 THEN 1000 ELSE 0,
           IF interactions < 5 THEN 2000 ELSE 0,
           IF login > 30 THEN 3000 ELSE IF login >= 8 /\ login <= 30 THEN 1000 ELSE 0 >>

\* their sum, taken in the order of the table
RECURSIVE SumOf(_)
SumOf(incs) ==
    IF incs = <<>> THEN FZero
    ELSE Bump(SumOf(SubSeq(incs, 1, Len(incs) - 1)), incs[Len(incs)])

\* C10: the rule-based estimate is min(S, 1.0), S the sum of the increments
\* of the documented table; nothing else contributes.
C10_DocumentedTable ==
    (ret.op = "predict_churn" /\ ~ret.raised) =>
        ret.prob = FMin(SumOf(DocumentedIncrements(req.d)), FOne)

\* C10 witness: every signal is in its second bucket, support_tickets and
\* feature_usage_score are present, and the estimate is 0.1 + 0.1 + 0.2 + 0.1.
C10_Witness ==
    /\ ret.op = "predict_churn"
    /\ {"support_tickets", "feature_usage_score"} \subseteq DOMAIN req.d
    /\ Get(req.d, "tenure_months", 0) = 3
    /\ Get(req.d, "monthly_revenue", 0) = 99
    /\ Get(req.d, "total_interactions", 0) = 4
    /\ Get(req.d, "last_login_days", 0) = 8
    /\ ret.prob = F(5000, 0)

\* the action texts of a returned list
ActionsOf(recs) == [i \in 1..Len(recs) |-> recs[i].action]

\* the value get_recommendations works with for field k of d: the entry, or
\* what an absent entry stands for (C4)
FieldOf(d, k) == Get(d, k, DefaultFor("get_recommendations", k, d))

\* the first n items of a pool
FirstOf(pool, n) == [i \in 1..n |-> pool[i]]

\* s without the elements that occur earlier in s, cut to its first n
KeepFirst(s) ==
    LET keep == {i \in 1..Len(s) : \A j \in 1..(i - 1) : s[j] # s[i]}
        Rank(i) == Cardinality({j \in keep : j <= i})
    IN  [r \in 1..Cardinality(keep) |-> s[CHOOSE i \in keep : Rank(i) = r]]

CutTo(s, n) == [i \in 1..(IF Len(s) < n THEN Len(s) ELSE n) |-> s[i]]

\* the documented engagement level
DocumentedEngagementLevel(d) ==
    FieldOf(d, "total_interactions") * 10
    + (IF FieldOf(d, "last_login_days") <= 7 THEN 20
       ELSE IF FieldOf(d, "last_login_days") <= 30 THEN 10 ELSE 0)

\* the documented selection, risk in units of 1/10000
DocumentedSelection(d) ==
    LET risk == selected_risk(d).m
        tier == IF risk > 7000
                THEN (IF DocumentedEngagementLevel(d) < 50
                      THEN FirstOf(intervention_strategies.high_churn_low_engagement, 2)
                      ELSE <<>>)
                     \o (IF FieldOf(d, "feature_usage_score") < 30
                         THEN FirstOf(intervention_strategies.high_churn_low_usage, 2)
                         ELSE <<>>)
                     \o (IF FieldOf(d, "support_tickets") > 3
                         THEN FirstOf(intervention_strategies.high_churn_support_issues, 1)
                         ELSE <<>>)
                ELSE IF risk > 4000
                THEN (IF FieldOf(d, "last_login_days") > 14
                      THEN FirstOf(intervention_strategies.engagement_drop, 2)
                      ELSE <<>>)
                ELSE <<>>
        low == IF FieldOf(d, "monthly_revenue") < 100
               THEN FirstOf(intervention_strategies.low_revenue, 1)
               ELSE <<>>
    IN  CutTo(KeepFirst(tier \o low), 5)

\* the actions of a pool / of the three high_churn pools
PoolActions(pool) == {pool[i] : i \in 1..Len(pool)}
HighChurnActions ==
    PoolActions(intervention_strategies.high_churn_low_engagement)
    \cup PoolActions(intervention_strategies.high_churn_low_usage)
    \cup PoolActions(intervention_strategies.high_churn_support_issues)

\* C11: the actions get_recommendations returns are the documented selection,
\* and no list holds an engagement_drop action next to a high_churn action.
C11_DocumentedSelection ==
    (ret.op = "get_recommendations" /\ ~ret.raised) =>
        /\ ActionsOf(ret.recs) = DocumentedSelection(req.d)
        /\ ~(\E i, j \in 1..Len(ret.recs) :
                /\ ret.recs[i].action \in PoolActions(intervention_strategies.engagement_drop)
                /\ ret.recs[j].action \in HighChurnActions)

\* C11 witness: a medium-tier customer with a login more than 14 days ago and
\* a revenue below 100 gets the two engagement_drop actions and the
\* low-revenue action.
C11_Witness ==
    /\ ret.op = "get_recommendations"
    /\ ActionsOf(ret.recs) = <<"Send re-engagement email campaign",
                               "Offer new feature preview",
                               "Discuss upgrade opportunities">>

\* ---- C13 ----
\* the six profile fields of d, all present
AllPresent(d) == feature_columns \subseteq DOMAIN d

\* the documented sub-scores; usage and financial in tenths (feature_usage and
\* revenue / 10 carry one decimal), the others whole
DocumentedLoginBucket(days) ==
    IF days <= 1 THEN 50 ELSE IF days <= 7 THEN 40 ELSE IF days <= 30 THEN 20 ELSE 0

DocumentedSubScores(d) ==
    LET tickets == d["support_tickets"]
        Least(a, b) == IF a <= b THEN a ELSE b
    IN  [engagement |-> Least(d["total_interactions"] * 2, 50)
                        + DocumentedLoginBucket(d["last_login_days"]),
         usage10 |-> Least(d["feature_usage_score"] * 20, 1000),
         satisfaction |-> IF tickets = 0 THEN 100
                          ELSE IF tickets \in 1..2 THEN 80
                          ELSE IF tickets \in 3..5 THEN 60 ELSE 40,
         financial10 |-> Least(d["monthly_revenue"], 700)
                         + 10 * Least(d["tenure_months"] * 2, 30),
         support |-> IF tickets = 0 THEN 100
                     ELSE IF tickets = 1 THEN 90
                     ELSE IF tickets \in 2..3 THEN 70
                     ELSE IF tickets \in 4..5 THEN 50 ELSE 30]

\* 0.30*engagement + 0.25*usage + 0.20*satisfaction + 0.15*financial
\* + 0.10*support, in thousandths
DocumentedHealthScore(d) ==
    LET s == DocumentedSubScores(d)
    IN  300 * s.engagement + 25 * s.usage10 + 200 * s.satisfaction
        + 15 * s.financial10 + 100 * s.support

\* the sub-scores the scorer computes lie in [0, 100]
SubScoresInRange(d) ==
    /\ calculate_engagement_score(d) \in 0..100
    /\ calculate_usage_score(d) \in 0..1000
    /\ calculate_satisfaction_score(d) \in 0..100
    /\ calculate_financial_score(d) \in 0..1000
    /\ calculate_support_score(d) \in 0..100

\* C13: for a profile with all six fields present and non-negative the health
\* score is the documented weighted sum of the documented sub-scores, the
\* weights add up to 1 (100 hundredths) and every sub-score is in [0, 100].
C13_DocumentedHealthScore ==
    (ret.op = "calculate_health_score" /\ ~ret.raised
        /\ AllPresent(req.d) /\ NonNegative(req.d)) =>
        /\ ret.score = DocumentedHealthScore(req.d)
        /\ weights.engagement + weights.usage + weights.satisfaction
           + weights.financial + weights.support = 100
        /\ SubScoresInRange(req.d)

\* C13 witness: a complete profile with 3 tickets (satisfaction 60, support 70),
\* 25 interactions and a login 8 days ago (engagement 70), usage 5.0 (100),
\* revenue 700 and tenure 15 (financial 100) scores 0.3*70 + 25 + 12 + 15 + 7.
C13_Witness ==
    /\ ret.op = "calculate_health_score" /\ ~ret.raised
    /\ AllPresent(req.d) /\ NonNegative(req.d)
    /\ req.d["support_tickets"] = 3 /\ req.d["total_interactions"] = 25
    /\ req.d["last_login_days"] = 8 /\ req.d["feature_usage_score"] = 50
    /\ req.d["monthly_revenue"] = 700 /\ req.d["tenure_months"] = 15
    /\ ret.score = 80000

\* ---- C14 ----
LowRevenueAction == intervention_strategies.low_revenue[1]

\* the three high-tier conditions hold at a risk above 0.7, so that five
\* high-tier actions fill the list
FilledByHighTier(d) ==
    /\ selected_risk(d).m > 7000
    /\ DocumentedEngagementLevel(d) < 50
    /\ FieldOf(d, "feature_usage_score") < 30
    /\ FieldOf(d, "support_tickets") > 3

\* C14: 'Discuss upgrade opportunities' is returned exactly when
\* monthly_revenue < 100 and the high tier has not filled the five places; it
\* is never returned for monthly_revenue >= 100.
C14_LowRevenueAction ==
    (ret.op = "get_recommendations" /\ ~ret.raised) =>
        ((\E i \in 1..Len(ret.recs) : ret.recs[i].action = LowRevenueAction)
            <=> (FieldOf(req.d, "monthly_revenue") < 100 /\ ~FilledByHighTier(req.d)))

\* C14 witness: a revenue of 99 whose low-revenue action is cut by the five
\* high-tier actions.
C14_Witness ==
    /\ ret.op = "get_recommendations" /\ ~ret.raised
    /\ "monthly_revenue" \in DOMAIN req.d /\ req.d["monthly_revenue"] = 99
    /\ FilledByHighTier(req.d)
    /\ Len(ret.recs) = 5
    /\ \A i \in 1..5 : ret.recs[i].action # LowRevenueAction

\* ---- C15 ----
Without(d, k) == [x \in DOMAIN d \ {k} |-> d[x]]

\* health scores in thousandths: 0, 49.99, 50, 100
HealthScoreValues == {0, 49990, 50000, 100000}

\* C15: the list returned for a dictionary is the list for the same dictionary
\* without health_score and for the same dictionary with any other
\* health_score.
C15_IndependentOfHealthScore ==
    (ret.op = "get_recommendations" /\ ~ret.raised) =>
        /\ ret.recs = get_recommendations(Without(req.d, "health_score"))
        /\ \A h \in HealthScoreValues :
              ret.recs = get_recommendations(With(req.d, "health_score", h))

\* C15 witness: a dictionary that carries a health_score of 50 and gets a
\* non-empty list.
C15_Witness ==
    /\ ret.op = "get_recommendations" /\ ~ret.raised
    /\ "health_score" \in DOMAIN req.d /\ req.d["health_score"] = 50000
    /\ Len(ret.recs) > 0

(***************************************************************************)
(* Properties of the API (SpecApi)                                         *)
(***************************************************************************)
\* the documented tiers
DocumentedRiskTier(x) ==
    IF x.m > 7000 \/ (x.m = 7000 /\ x.u > 0) THEN "High"
    ELSE IF x.m > 4000 \/ (x.m = 4000 /\ x.u > 0) THEN "Medium"
    ELSE "Low"

DocumentedHealthTier(h) ==
    IF h >= 90000 THEN "Excellent"
    ELSE IF h >= 70000 THEN "Good"
    ELSE IF h >= 50000 THEN "Fair"
    ELSE "Poor"

\* C12: in a response of /api/customer/<id>, and in every entry of a response
\* of /api/customers that carries recommendations, the risk get_recommendations
\* selected its tier on is the probability predict_churn returned in that
\* request, as returned or as rounded to 3 decimals for the response.
C12_SelectsOnComputedProbability ==
    /\ (ret.op = "api_customer" /\ ~ret.raised /\ ret.label # "not_found") =>
            ret.risk \in {ret.prob, ret.shown}
    /\ (ret.op = "api_customers" /\ ~ret.raised) =>
            \A i \in 1..Len(ret.rows) :
                ret.rows[i].listed =>
                    ret.rows[i].risk \in {ret.rows[i].prob, ret.rows[i].shown}

\* C16: the risk_level of a /api/predict-churn response is the tier of the
\* churn_probability of that response, and the health_status of a
\* /api/health-score response is the tier of its health_score.
C16_LabelIsTierOfReportedNumber ==
    /\ (ret.op = "api_predict_churn" /\ ~ret.raised) =>
            ret.label = DocumentedRiskTier(ret.shown)
    /\ (ret.op = "api_health_score" /\ ~ret.raised) =>
            ret.label = DocumentedHealthTier(ret.shownScore)

====
